---- MODULE Spec2Model ----
(***************************************************************************)
(* Model of kirby_tracker_loader.py: an incremental load of spreadsheet    *)
(* rows into the PostgreSQL table public.activity, driven by a high-water  *)
(* mark on act_datetime.                                                   *)
(*                                                                         *)
(* Datetimes are integers.  A date cell is a day number 1..MaxDate, a      *)
(* start_time cell is a slot 0..MaxTime of the day (or None for an empty   *)
(* cell), and the combined act_dt is date * SlotsPerDay + start_time.      *)
(* pd.Timestamp.min is 0, below every act_dt the spreadsheet can produce.  *)
(* The text of the cells is not modelled: pd.to_datetime raising on text   *)
(* it cannot parse is a failure the filter step may take on any sheet      *)
(* that has a row left after dropna.                                       *)
(*                                                                         *)
(* A destination row carries act_datetime plus three bookkeeping fields:   *)
(* src (index of the spreadsheet row it was built from; stands for the     *)
(* activity and note columns), by and run (the process and invocation that *)
(* inserted it; stand for insert_process and insert_datetime).  Rows that  *)
(* were in the table before the first run have src = by = run = 0.         *)
(***************************************************************************)
EXTENDS Integers, Sequences, FiniteSets, TLC

\* ---------------------------------------------------------------- bounds
MaxRows == 2
MaxDate == 1
MaxTime == 1
MaxPre  == 1
MaxRuns == 2
MaxRowsConc == 1

\* ------------------------------------------------------------- constants
None         == -1
TimestampMin == 0
SlotsPerDay  == MaxTime + 1
TimestampMax == (MaxDate + 1) * SlotsPerDay
Procs        == {1, 2}
NoStage      == "none"
StageOrder   == <<"credential", "read_source", "resolve_watermark", "filter", "load">>

VARIABLES
  source,       \* Kirby_Tracker.xlsx, first sheet: sequence of [date, start_time]
  tableExists,  \* does public.activity exist
  table,        \* committed rows of public.activity, in insertion order
  pc,           \* position of each process in main()
  run,          \* number of the current invocation of each process
  df,           \* the DataFrame returned by read_from_excel_sheet
  engine,       \* "none" | "live" | "disposed"
  pool,         \* idle connections held by the engine's pool
  conn,         \* connections currently checked out
  physOpened,   \* database connections opened during this run
  engCreated,   \* engines created during this run
  wm,           \* max_act_datetime_tgt
  inc,          \* inc_df
  pending,      \* rows written inside the open, uncommitted transaction
  raising,      \* an exception is propagating out of transform_load_to_postgresql
  status,       \* process exit status (None while running)
  stages,       \* stages entered during this run, in order
  failedAt,     \* stage that raised during this run
  startTable,   \* table content when this run started
  txBegun,      \* write transactions begun during this run
  attempts,     \* row inserts attempted during this run
  prevOk        \* the previous run of this process exited with status 0

vars == <<source, tableExists, table, pc, run, df, engine, pool, conn,
          physOpened, engCreated, wm, inc, pending, raising, status, stages,
          failedAt, startTable, txBegun, attempts, prevOk>>

dbVars   == <<tableExists, table>>
connVars == <<engine, pool, conn, physOpened, engCreated>>
dataVars == <<df, wm, inc, pending>>
txVars   == <<txBegun, attempts>>
runVars  == <<run, startTable, prevOk, status>>

\* ------------------------------------------------------------ value sets
SourceRows == [date : 1..MaxDate, start_time : {None} \cup (0..MaxTime)]
Sources    == UNION {[1..n -> SourceRows] : n \in 0..MaxRows}
PreRows    == [act_datetime : SlotsPerDay..(MaxDate * SlotsPerDay + MaxTime),
               src : {0}, by : {0}, run : {0}]
PreTables  == UNION {[1..n -> PreRows] : n \in 0..MaxPre}

\* -------------------------------------------------------- pure functions
RECURSIVE SeqMax(_)
SeqMax(s) ==
  IF s = <<>> THEN None
  ELSE LET m == SeqMax(Tail(s))
       IN  IF m = None \/ Head(s) > m THEN Head(s) ELSE m

RECURSIVE SeqMin(_)
SeqMin(s) ==
  IF s = <<>> THEN None
  ELSE LET m == SeqMin(Tail(s))
       IN  IF m = None \/ Head(s) < m THEN Head(s) ELSE m

ActDatetimes(tbl) == [k \in 1..Len(tbl) |-> tbl[k].act_datetime]

ScalarMin(tbl) == SeqMin(ActDatetimes(tbl))

\* SELECT max(act_datetime): NULL on a table without rows
ScalarMax(tbl) == SeqMax(ActDatetimes(tbl))

MaxActDatetimeTgtTop(result) == IF result # None THEN result ELSE TimestampMax

\* pd.to_datetime(result) if result is not None else pd.Timestamp.min
MaxActDatetimeTgt(result) == IF result # None THEN result ELSE TimestampMin

\* the DataFrame of the sheet: every row keeps its index
ReadFrame(src) ==
  [i \in 1..Len(src) |-> [idx |-> i, date |-> src[i].date,
                          start_time |-> src[i].start_time]]

HasStartTime(r) == r.start_time # None

\* df.dropna(subset=["start_time"])
DropNa(frame) == SelectSeq(frame, HasStartTime)

\* pd.to_datetime(date + " " + start_time)
ActDt(r) == r.date * SlotsPerDay + r.start_time

NewerOrEqual(act_dt, watermark) == act_dt >= watermark

\* df["act_dt"] > max_act_datetime_tgt
Newer(act_dt, watermark) == act_dt > watermark

\* df[df["act_dt"] > max_act_datetime_tgt]
IncFilter(frame, watermark) ==
  LET keep(r) == Newer(ActDt(r), watermark) IN SelectSeq(frame, keep)

\* projection to the destination columns, stamped with the provenance
Project(frame, p, n) ==
  [k \in 1..Len(frame) |->
     [act_datetime |-> ActDt(frame[k]), src |-> frame[k].idx, by |-> p, run |-> n]]

NeverEmpty(rows) == FALSE

\* inc_df.empty
IsEmpty(rows) == rows = <<>>

ToSqlReplace(tbl, rows) == rows

ToSqlSkipExisting(tbl, rows) ==
  LET fresh(r) == \A k \in 1..Len(tbl) : tbl[k].act_datetime # r.act_datetime
  IN  tbl \o SelectSeq(rows, fresh)

\* to_sql(..., if_exists="append") at commit: the rows are appended
ToSql(tbl, rows) == tbl \o rows

KeepPartial(tbl, rows) == tbl \o rows

\* engine.begin() leaving on an exception: rollback, nothing becomes visible
RollbackResult(tbl, rows) == tbl

DisposeNever(e) == FALSE

\* if engine is not None
DisposeNeeded(e) == e # "none"

ExitAlwaysZero(raised) == 0

\* sys.exit(1) in the handler of main, status 0 when main returns
ExitStatus(raised) == IF raised THEN 1 ELSE 0

\* ------------------------------------------------------------ initial states
InitShared ==
  /\ source \in Sources
  /\ tableExists \in BOOLEAN
  /\ table \in (IF tableExists THEN PreTables ELSE {<<>>})
  /\ df = [p \in Procs |-> <<>>]
  /\ engine = [p \in Procs |-> "none"]
  /\ pool = [p \in Procs |-> 0]
  /\ conn = [p \in Procs |-> 0]
  /\ physOpened = [p \in Procs |-> 0]
  /\ engCreated = [p \in Procs |-> 0]
  /\ wm = [p \in Procs |-> None]
  /\ inc = [p \in Procs |-> <<>>]
  /\ pending = [p \in Procs |-> <<>>]
  /\ raising = [p \in Procs |-> FALSE]
  /\ status = [p \in Procs |-> None]
  /\ stages = [p \in Procs |-> <<>>]
  /\ failedAt = [p \in Procs |-> NoStage]
  /\ startTable = [p \in Procs |-> table]
  /\ txBegun = [p \in Procs |-> 0]
  /\ attempts = [p \in Procs |-> 0]
  /\ prevOk = [p \in Procs |-> FALSE]

\* one instance of the job, invoked again after it exits
Init ==
  /\ InitShared
  /\ run = [p \in Procs |-> 1]
  /\ pc = [p \in Procs |-> IF p = 1 THEN "main" ELSE "off"]

\* two instances of the job started against the same sheet and a table
\* that is absent or holds no rows yet; the first may be invoked again, the
\* second is on its last invocation
InitConc ==
  /\ InitShared
  /\ Len(source) <= MaxRowsConc
  /\ table = <<>>
  /\ run = [p \in Procs |-> IF p = 1 THEN 1 ELSE MaxRuns]
  /\ pc = [p \in Procs |-> "main"]

\* ------------------------------------------------------------------ actions
Enter(p, stage) == stages' = [stages EXCEPT ![p] = Append(@, stage)]

\* get_postgresql_credential, called from main
GetCredential(p) ==
  /\ pc[p] = "main"
  /\ Enter(p, "credential")
  /\ \E ok \in BOOLEAN :
       IF ok
       THEN /\ pc' = [pc EXCEPT ![p] = "read_excel"]
            /\ UNCHANGED failedAt
       ELSE /\ pc' = [pc EXCEPT ![p] = "main_except"]
            /\ failedAt' = [failedAt EXCEPT ![p] = "credential"]
  /\ UNCHANGED <<source, dbVars, connVars, dataVars, txVars, runVars, raising>>

\* read_from_excel_sheet, called from main
ReadExcel(p) ==
  /\ pc[p] = "read_excel"
  /\ Enter(p, "read_source")
  /\ \E ok \in BOOLEAN :
       IF ok
       THEN /\ df' = [df EXCEPT ![p] = ReadFrame(source)]
            /\ pc' = [pc EXCEPT ![p] = "create_engine"]
            /\ UNCHANGED failedAt
       ELSE /\ pc' = [pc EXCEPT ![p] = "main_except"]
            /\ failedAt' = [failedAt EXCEPT ![p] = "read_source"]
            /\ UNCHANGED df
  /\ UNCHANGED <<source, dbVars, connVars, wm, inc, pending, txVars, runVars, raising>>

\* an exception inside the try block: logged and re-raised
Raise(p, stage) ==
  /\ raising' = [raising EXCEPT ![p] = TRUE]
  /\ failedAt' = [failedAt EXCEPT ![p] = stage]
  /\ pc' = [pc EXCEPT ![p] = "finally"]

\* create_engine
CreateEngine(p) ==
  /\ pc[p] = "create_engine"
  /\ Enter(p, "resolve_watermark")
  /\ \E ok \in BOOLEAN :
       IF ok
       THEN /\ engine' = [engine EXCEPT ![p] = "live"]
            /\ engCreated' = [engCreated EXCEPT ![p] = @ + 1]
            /\ pc' = [pc EXCEPT ![p] = "query"]
            /\ UNCHANGED <<raising, failedAt>>
       ELSE /\ Raise(p, "resolve_watermark")
            /\ UNCHANGED <<engine, engCreated>>
  /\ UNCHANGED <<source, dbVars, pool, conn, physOpened, dataVars, txVars, runVars>>

\* with engine.connect() as conn: result = conn.execute(query).scalar()
QueryWatermark(p) ==
  /\ pc[p] = "query"
  /\ \E connected \in BOOLEAN :
       IF ~connected
       THEN /\ Raise(p, "resolve_watermark")
            /\ UNCHANGED <<pool, physOpened, wm>>
       ELSE /\ physOpened' = [physOpened EXCEPT ![p] = IF pool[p] = 0 THEN @ + 1 ELSE @]
            /\ pool' = [pool EXCEPT ![p] = 1]
            /\ IF tableExists
               THEN /\ wm' = [wm EXCEPT ![p] = MaxActDatetimeTgt(ScalarMax(table))]
                    /\ pc' = [pc EXCEPT ![p] = "filter"]
                    /\ UNCHANGED <<raising, failedAt>>
               ELSE /\ Raise(p, "resolve_watermark")
                    /\ UNCHANGED wm
  /\ UNCHANGED <<source, dbVars, engine, conn, engCreated, df, inc, pending,
                 txVars, runVars, stages>>

\* dropna, act_dt, the comparison with the watermark, the projection and
\* the test of inc_df.empty
Filter(p) ==
  /\ pc[p] = "filter"
  /\ Enter(p, "filter")
  /\ LET kept == DropNa(df[p])
         rows == Project(IncFilter(kept, wm[p]), p, run[p])
     IN  \E parsed \in (IF kept = <<>> THEN {TRUE} ELSE BOOLEAN) :
           IF parsed
           THEN /\ inc' = [inc EXCEPT ![p] = rows]
                /\ pc' = [pc EXCEPT ![p] = IF IsEmpty(rows) THEN "finally" ELSE "begin"]
                /\ UNCHANGED <<raising, failedAt>>
           ELSE /\ Raise(p, "filter")
                /\ UNCHANGED inc
  /\ UNCHANGED <<source, dbVars, connVars, df, wm, pending, txVars, runVars>>

\* with engine.begin() as conn
BeginTxn(p) ==
  /\ pc[p] = "begin"
  /\ Enter(p, "load")
  /\ physOpened' = [physOpened EXCEPT ![p] = IF pool[p] = 0 THEN @ + 1 ELSE @]
  /\ pool' = [pool EXCEPT ![p] = IF @ = 0 THEN 0 ELSE @ - 1]
  /\ conn' = [conn EXCEPT ![p] = @ + 1]
  /\ txBegun' = [txBegun EXCEPT ![p] = @ + 1]
  /\ pending' = [pending EXCEPT ![p] = <<>>]
  /\ pc' = [pc EXCEPT ![p] = "to_sql"]
  /\ UNCHANGED <<source, dbVars, engine, engCreated, df, wm, inc, attempts,
                 runVars, raising, failedAt>>

\* the transaction ends with an exception: rollback, connection back to the pool
Rollback(p) ==
  /\ table' = RollbackResult(table, pending[p])
  /\ pending' = [pending EXCEPT ![p] = <<>>]
  /\ conn' = [conn EXCEPT ![p] = @ - 1]
  /\ pool' = [pool EXCEPT ![p] = @ + 1]
  /\ Raise(p, "load")

\* inc_df.to_sql: the write of the next row of inc_df
InsertRow(p) ==
  /\ pc[p] = "to_sql"
  /\ Len(pending[p]) < Len(inc[p])
  /\ attempts' = [attempts EXCEPT ![p] = @ + 1]
  /\ \E ok \in BOOLEAN :
       IF ok
       THEN /\ pending' = [pending EXCEPT ![p] = Append(@, inc[p][Len(@) + 1])]
            /\ UNCHANGED <<table, conn, pool, raising, failedAt, pc>>
       ELSE Rollback(p)
  /\ UNCHANGED <<source, tableExists, engine, physOpened, engCreated, df, wm, inc,
                 txBegun, runVars, stages>>

\* the with block of engine.begin() is left: commit
Commit(p) ==
  /\ pc[p] = "to_sql"
  /\ Len(pending[p]) = Len(inc[p])
  /\ \E ok \in BOOLEAN :
       IF ok
       THEN /\ table' = ToSql(table, pending[p])
            /\ tableExists' = TRUE
            /\ pending' = [pending EXCEPT ![p] = <<>>]
            /\ conn' = [conn EXCEPT ![p] = @ - 1]
            /\ pool' = [pool EXCEPT ![p] = @ + 1]
            /\ pc' = [pc EXCEPT ![p] = "finally"]
            /\ UNCHANGED <<raising, failedAt>>
       ELSE /\ Rollback(p)
            /\ UNCHANGED tableExists
  /\ UNCHANGED <<source, engine, physOpened, engCreated, df, wm, inc,
                 txVars, runVars, stages>>

\* finally: dispose the engine, then return or let the exception propagate
Finally(p) ==
  /\ pc[p] = "finally"
  /\ IF DisposeNeeded(engine[p])
     THEN /\ engine' = [engine EXCEPT ![p] = "disposed"]
          /\ pool' = [pool EXCEPT ![p] = 0]
     ELSE UNCHANGED <<engine, pool>>
  /\ pc' = [pc EXCEPT ![p] = IF raising[p] THEN "main_except" ELSE "main_end"]
  /\ UNCHANGED <<source, dbVars, conn, physOpened, engCreated, dataVars, txVars,
                 runVars, raising, stages, failedAt>>

\* main returns, or its handler calls sys.exit(1)
MainExit(p) ==
  /\ pc[p] \in {"main_end", "main_except"}
  /\ status' = [status EXCEPT ![p] = ExitStatus(pc[p] = "main_except")]
  /\ pc' = [pc EXCEPT ![p] = "exited"]
  /\ UNCHANGED <<source, dbVars, connVars, dataVars, txVars, run, startTable,
                 prevOk, raising, stages, failedAt>>

\* the job is started again: a fresh process, same sheet, same database
Restart(p) ==
  /\ pc[p] = "exited"
  /\ run[p] < MaxRuns
  /\ run' = [run EXCEPT ![p] = @ + 1]
  /\ prevOk' = [prevOk EXCEPT ![p] = (status[p] = 0)]
  /\ startTable' = [startTable EXCEPT ![p] = table]
  /\ status' = [status EXCEPT ![p] = None]
  /\ pc' = [pc EXCEPT ![p] = "main"]
  /\ df' = [df EXCEPT ![p] = <<>>]
  /\ engine' = [engine EXCEPT ![p] = "none"]
  /\ pool' = [pool EXCEPT ![p] = 0]
  /\ conn' = [conn EXCEPT ![p] = 0]
  /\ physOpened' = [physOpened EXCEPT ![p] = 0]
  /\ engCreated' = [engCreated EXCEPT ![p] = 0]
  /\ wm' = [wm EXCEPT ![p] = None]
  /\ inc' = [inc EXCEPT ![p] = <<>>]
  /\ pending' = [pending EXCEPT ![p] = <<>>]
  /\ raising' = [raising EXCEPT ![p] = FALSE]
  /\ stages' = [stages EXCEPT ![p] = <<>>]
  /\ failedAt' = [failedAt EXCEPT ![p] = NoStage]
  /\ txBegun' = [txBegun EXCEPT ![p] = 0]
  /\ attempts' = [attempts EXCEPT ![p] = 0]
  /\ UNCHANGED <<source, dbVars>>

Next ==
  \E p \in Procs :
    \/ GetCredential(p)
    \/ ReadExcel(p)
    \/ CreateEngine(p)
    \/ QueryWatermark(p)
    \/ Filter(p)
    \/ BeginTxn(p)
    \/ InsertRow(p)
    \/ Commit(p)
    \/ Finally(p)
    \/ MainExit(p)
    \/ Restart(p)

Spec == Init /\ [][Next]_vars

SpecConc == InitConc /\ [][Next]_vars

\* ------------------------------------------------------------- properties
IsPrefix(s, t) == Len(s) <= Len(t) /\ \A k \in 1..Len(s) : s[k] = t[k]

RowsOf(tbl, i) == {k \in 1..Len(tbl) : tbl[k].src = i}

InsertedBy(tbl, p, n) == {k \in 1..Len(tbl) : tbl[k].by = p /\ tbl[k].run = n}

Returned(p) == pc[p] \in {"main_end", "main_except", "exited"}

\* C1: a run that follows a successful run of the same job over the same
\* sheet, with no other writer, attempts no insert, selects no row and
\* leaves the table as it found it.
Idempotence ==
  \A p \in Procs :
    prevOk[p] => /\ attempts[p] = 0
                 /\ inc[p] = <<>>
                 /\ table = startTable[p]

\* C1 witness: the first run inserted rows and the second run has exited
\* successfully.
IdempotenceWitness ==
  /\ prevOk[1]
  /\ pc[1] = "exited"
  /\ status[1] = 0
  /\ InsertedBy(table, 1, run[1] - 1) # {}

\* C2: every row the current run has written or committed comes from a sheet
\* row that has a start_time and whose act_dt is strictly greater than the
\* watermark the run observed; hence a row with act_dt equal to or below the
\* watermark, or without start_time, is never inserted.
WatermarkCorrect ==
  \A p \in Procs :
    LET mine == SelectSeq(table, LAMBDA r : r.by = p /\ r.run = run[p]) \o pending[p]
    IN  \A k \in 1..Len(mine) :
          /\ wm[p] # None
          /\ mine[k].act_datetime > wm[p]
          /\ mine[k].src \in 1..Len(source)
          /\ source[mine[k].src].start_time # None
          /\ mine[k].act_datetime = ActDt(source[mine[k].src])

\* C2 witness: a run committed a row while the sheet also holds a row whose
\* act_dt equals the watermark the run observed.
WatermarkWitness ==
  /\ pc[1] = "exited"
  /\ status[1] = 0
  /\ InsertedBy(table, 1, run[1]) # {}
  /\ \E i \in 1..Len(source) :
       /\ source[i].start_time # None
       /\ ActDt(source[i]) = wm[1]

\* C3: rows of an open transaction are not visible; a run that failed leaves
\* the table equal to its content before the run; a run that exited with
\* status 0 leaves the prior content followed by all selected rows.
Atomicity ==
  \A p \in Procs :
    /\ pc[p] = "to_sql" => table = startTable[p]
    /\ failedAt[p] # NoStage => table = startTable[p]
    /\ (pc[p] = "exited" /\ status[p] # 0) => table = startTable[p]
    /\ (pc[p] = "exited" /\ status[p] = 0) => table = startTable[p] \o inc[p]

\* C3 witness: the write of the second selected row failed and the run has
\* exited.
AtomicityWitness ==
  /\ pc[1] = "exited"
  /\ failedAt[1] = "load"
  /\ attempts[1] >= 2
  /\ Len(inc[1]) >= 2

\* C4: once the filter has produced an empty inc_df, the run begins no write
\* transaction, attempts no insert, leaves the table unchanged and ends
\* without an error (exit status 0).
EmptySkip ==
  \A p \in Procs :
    (Len(stages[p]) >= 4 /\ failedAt[p] # "filter" /\ inc[p] = <<>>) =>
       /\ txBegun[p] = 0
       /\ attempts[p] = 0
       /\ table = startTable[p]
       /\ ~raising[p]
       /\ failedAt[p] = NoStage
       /\ pc[p] \in {"finally", "main_end", "exited"}
       /\ pc[p] = "exited" => status[p] = 0

\* C4 witness: a run over a sheet with eligible rows, none newer than the
\* watermark, has exited.
EmptySkipWitness ==
  /\ pc[1] = "exited"
  /\ Len(stages[1]) = 4
  /\ inc[1] = <<>>
  /\ DropNa(df[1]) # <<>>
  /\ status[1] = 0

\* C5: a successful run that found the table present and without rows took
\* pd.Timestamp.min as watermark and left exactly one row per sheet row with
\* a start_time, and none for the others.
EmptyDestination ==
  \A p \in Procs :
    (pc[p] = "exited" /\ status[p] = 0 /\ startTable[p] = <<>>) =>
       /\ wm[p] = TimestampMin
       /\ \A i \in 1..Len(source) :
            Cardinality(RowsOf(table, i)) = IF source[i].start_time # None THEN 1 ELSE 0
       /\ Len(table) = Len(DropNa(ReadFrame(source)))

\* C5 witness: such a run over a sheet holding a row with and a row without
\* start_time.
EmptyDestinationWitness ==
  /\ pc[1] = "exited"
  /\ status[1] = 0
  /\ startTable[1] = <<>>
  /\ table # <<>>
  /\ \E i \in 1..Len(source) : source[i].start_time = None

\* C6: when public.activity does not exist, resolving the watermark yields
\* pd.Timestamp.min and the run does not fail.
AbsentTableSentinel ==
  \A p \in Procs :
    (~tableExists /\ pc[p] \notin {"main", "read_excel", "create_engine", "query"}
       /\ failedAt[p] \notin {"credential", "read_source"}
       /\ physOpened[p] > 0) =>
       /\ wm[p] = TimestampMin
       /\ ~raising[p]

\* C7: the stages run in the order credential, read_source,
\* resolve_watermark, filter, load; nothing runs after the stage that failed;
\* the exit status is 1 exactly when a stage failed; no engine, connection or
\* insert exists before the source was read successfully, and no source read
\* after a credential failure.
OrchestratorOrder ==
  \A p \in Procs :
    /\ IsPrefix(stages[p], StageOrder)
    /\ failedAt[p] # NoStage => stages[p][Len(stages[p])] = failedAt[p]
    /\ failedAt[p] # NoStage => pc[p] \in {"finally", "main_except", "exited"}
    /\ pc[p] = "exited" => status[p] = IF failedAt[p] # NoStage THEN 1 ELSE 0
    /\ failedAt[p] = "credential" => Len(stages[p]) = 1 /\ df[p] = <<>>
    /\ (Len(stages[p]) < 3 \/ failedAt[p] \in {"credential", "read_source"}) =>
         /\ engCreated[p] = 0
         /\ physOpened[p] = 0
         /\ txBegun[p] = 0
         /\ attempts[p] = 0

\* C7 witness: a run whose source read failed has exited with status 1.
OrchestratorWitness ==
  /\ pc[1] = "exited"
  /\ failedAt[1] = "read_source"
  /\ status[1] = 1

AppendOnly ==
  [][IsPrefix(table, table') /\ (tableExists => tableExists')]_vars

\* C9 witness: a row that predates the first run sits before rows two
\* different runs committed.
AppendOnlyWitness ==
  /\ Len(table) >= 2
  /\ table[1].by = 0
  /\ table[Len(table)].by = 1
  /\ pc[1] = "exited"

\* C10: when two concurrent runs both selected the same sheet row and both
\* exited with status 0, the table holds that row at least twice.
RaceDuplicates ==
  \A i \in 1..Len(source) :
    (\A p \in Procs : /\ pc[p] = "exited"
                      /\ status[p] = 0
                      /\ \E k \in 1..Len(inc[p]) : inc[p][k].src = i)
      => Cardinality(RowsOf(table, i)) >= 2

\* C10 witness: both runs read the same watermark before either committed
\* and the table ends with two rows for one sheet row.
RaceWitness ==
  \E i \in 1..Len(source) :
    /\ \A p \in Procs : /\ pc[p] = "exited"
                        /\ status[p] = 0
                        /\ \E k \in 1..Len(inc[p]) : inc[p][k].src = i
    /\ wm[1] = wm[2]
    /\ Cardinality(RowsOf(table, i)) = 2

====
